---- MODULE Spec2Model ----
(***************************************************************************)
(* A model of app.py of MayaAbe/sat-operator: the pass simulator SatSim    *)
(* (get_state, predict_next_downlink), the pass report of                 *)
(* build_operation_animation, the telemetry generator BusSimulator         *)
(* (generate_data, with numpy's process-wide generator) and the alarm      *)
(* summary of the telemetry page.                                          *)
(*                                                                         *)
(* Numbers are fixed point.  Angles of SatSim are in centidegrees, the     *)
(* orbital phase in 1/16 degree (the phase advances 360/5760 degree, one   *)
(* unit, per second), times in whole seconds (every call site of the       *)
(* source passes whole seconds).  Sine and arctangent are rational         *)
(* approximations on 32-bit integers.  Telemetry units are given with the  *)
(* generator below.                                                        *)
(***************************************************************************)
EXTENDS Integers, Sequences, FiniteSets

VARIABLES
    sim,        \* the SatSim instance: [t_lat, t_lon]
    state,      \* what the last get_state call returned, or NoState
    downlink,   \* what the last predict_next_downlink call returned, or NoCall
    raised,     \* the exception the last SatSim call raised ("none": it returned)
    report,     \* operation page: what build_operation_animation returned and the
                \* forecast line shown from it, or NoReport
    rng,        \* numpy's global generator (np.random), one per process
    run,        \* per session: the locals of its generate_data call
    session,    \* per session: st.session_state["telemetry_df"] and the alarms shown
    df,         \* alarm page: a completed sample sequence
    alarms      \* alarm page: the alarm list built from df

vars == <<sim, state, downlink, raised, report, rng, run, session, df, alarms>>

satVars == <<sim, state, downlink, raised, report>>
busVars == <<rng, run, session>>
alarmVars == <<df, alarms>>

Abs(x) == IF x < 0 THEN -x ELSE x

\* np.clip(x, lo, hi)
ClipNoop(x, lo, hi) == x
Clip(x, lo, hi) == IF x < lo THEN lo ELSE IF x > hi THEN hi ELSE x

(***************************************************************************)
(* SatSim                                                                  *)
(***************************************************************************)

\* GROUND_STATIONS, in declaration order (centidegrees)
GROUND_STATIONS ==
    << [name |-> "Tsukuba",    lat |-> 3606,  lon |-> 14012],
       [name |-> "Katsuura",   lat |-> 3515,  lon |-> 14030],
       [name |-> "Okinawa",    lat |-> 2650,  lon |-> 12785],
       [name |-> "Svalbard",   lat |-> 7822,  lon |-> 1540],
       [name |-> "Santiago",   lat |-> -3315, lon |-> -7066],
       [name |-> "Maspalomas", lat |-> 2776,  lon |-> -1563] >>

\* period = 5760 s; omega * t is t phase units of 1/16 degree
period == 5760

\* 90 * sin(X / 16 degrees) in centidegrees (Bhaskara's rational approximation
\* of the sine, on numbers that fit 32 bits)
HalfWave(x) == LET p == (x * (2880 - x)) \div 64 IN (36000 * p) \div (162000 - p)
Sin90(X) ==
    LET x == X % period
    IN  IF x <= 2880 THEN HalfWave(x) ELSE -HalfWave(x - 2880)

\* np.arcsin of a latitude / 90 already clipped to [-1, 1], in phase units:
\* the phase in [-90, 90] degrees whose Sin90 is nearest
ArcSin90(l) ==
    LET hi == CHOOSE X \in -1440..1440 :
                  /\ Sin90(X) >= l
                  /\ (X = -1440 \/ Sin90(X - 1) < l)
    IN  IF hi > -1440 /\ l - Sin90(hi - 1) < Sin90(hi) - l THEN hi - 1 ELSE hi

\* the targets the simulator is constructed with (centidegrees): five of
\* LOCATIONS (Tsukuba, Canberra, Cape Town, Cairo, London), one whose ground
\* track starts on the date line, one on the domain's edge, two outside the
\* documented domain, and one from which Maspalomas comes into range at the
\* last sample of the pass
Targets ==
    { <<3606, 14013>>, <<-3528, 14913>>, <<-3392, 1842>>, <<3004, 3124>>,
      <<0, -17800>>, <<-9000, 18000>>, <<9500, 0>>, <<0, 20000>>,
      <<5151, -13>>, <<4750, 0>> }

\* arcsin(clip(t_lat / 90, -1, 1)) for the latitudes in use
PhaseTable == [l \in {Clip(tg[1], -9000, 9000) : tg \in Targets} |-> ArcSin90(l)]
phase_offset(t_lat) == PhaseTable[Clip(t_lat, -9000, 9000)]

\* (x + 180) % 360 - 180
WrapNone(x) == x
WrapLon(x) == ((x + 18000) % 36000) - 18000

StatusLoose(t_sec) ==
    IF Abs(t_sec) < 2 THEN "CAPTURING!"
    ELSE IF t_sec < -20 THEN "PREV TASK"
    ELSE IF t_sec > 20 THEN "NEXT TASK"
    ELSE "TARGET ACQ"
Status(t_sec) ==
    IF Abs(t_sec) <= 2 THEN "CAPTURING!"
    ELSE IF t_sec < -20 THEN "PREV TASK"
    ELSE IF t_sec > 20 THEN "NEXT TASK"
    ELSE "TARGET ACQ"

\* np.degrees(np.arctan2(d, 10.0)) in centidegrees, d in centidegrees (so that
\* d / 10.0 is d thousandths): x * (45 + 15.64 * (1 - x)) degrees for
\* 0 <= x <= 1, 90 degrees minus the arctangent of 1 / x beyond, odd in d
ArcTanUnit(x) == (x * ((4500000 + 1564 * (1000 - x)) \div 1000)) \div 1000
ArcTan10(d) ==
    LET a == Abs(d)
        v == IF a <= 1000 THEN ArcTanUnit(a) ELSE 9000 - ArcTanUnit(1000000 \div a)
    IN  IF d < 0 THEN -v ELSE v

\* SatSim.get_state
get_state(s, t_sec) ==
    LET current_phase == phase_offset(s.t_lat) - t_sec
        sat_lat == Sin90(current_phase)
        sat_lon == WrapLon((s.t_lon - 200) + (-6 * t_sec))
        in_window == -40 <= t_sec /\ t_sec <= 40
        d_lat == s.t_lat - sat_lat
        d_lon == WrapLon(s.t_lon - sat_lon)
        pitch == IF in_window THEN ArcTan10(d_lat) * 2 ELSE 0
        roll == IF in_window THEN ArcTan10(d_lon) * 2 ELSE 0
    IN  [time |-> t_sec, lat |-> sat_lat, lon |-> sat_lon,
         pitch |-> Clip(pitch, -4500, 4500), roll |-> Clip(roll, -4500, 4500),
         status |-> Status(t_sec)]

\* dist < 20.0, on the squares
InRange(st, gs) ==
    (st.lat - gs.lat) * (st.lat - gs.lat) + (st.lon - gs.lon) * (st.lon - gs.lon)
        < 2000 * 2000

\* range(0, 6000, 60)
ProbeOffsetsEarly == [k \in 1..100 |-> 60 * (k - 2)]
ProbeOffsets == [k \in 1..100 |-> 60 * (k - 1)]

StationOrderReversed == [i \in 1..Len(GROUND_STATIONS) |-> Len(GROUND_STATIONS) + 1 - i]
StationOrder == [i \in 1..Len(GROUND_STATIONS) |-> i]

\* Optional values are sequences: <<>> is None, <<v>> is v
NoResult == [time |-> <<>>, gs |-> <<>>]

\* the inner loop of predict_next_downlink from station i on: the first
\* station in range of st, or None
RECURSIVE FirstStation(_, _)
FirstStation(st, i) ==
    IF i > Len(StationOrder) THEN <<>>
    ELSE IF InRange(st, GROUND_STATIONS[StationOrder[i]])
         THEN <<GROUND_STATIONS[StationOrder[i]].name>>
         ELSE FirstStation(st, i + 1)

\* the outer loop of predict_next_downlink from probe k on
RECURSIVE Scan(_, _, _)
Scan(s, current_time, k) ==
    IF k > Len(ProbeOffsets) THEN NoResult
    ELSE LET t_check == current_time + ProbeOffsets[k]
             hit == FirstStation(get_state(s, t_check), 1)
         IN  IF hit # <<>> THEN [time |-> <<t_check>>, gs |-> hit]
             ELSE Scan(s, current_time, k + 1)

predict_next_downlink(s, current_time) == Scan(s, current_time, 1)

NoState ==
    [called |-> FALSE, time |-> 0, lat |-> 0, lon |-> 0, pitch |-> 0, roll |-> 0,
     status |-> "none"]
NoCall == [called |-> FALSE, at |-> 0, time |-> <<>>, gs |-> <<>>]

\* the times get_state is called with: the pass samples np.arange(-40, 41, 2),
\* their odd neighbours, and the background track np.arange(-3000, 3001, 60)
SampleTimes == (-45..45) \cup {600 * k : k \in -5..5}

\* the times predict_next_downlink is called with (the application passes 40)
CurrentTimes == {-40, 0, 40, 3000}

\* predict_next_downlink on every target and time in use, computed once
Forecast ==
    [tg \in Targets, current_time \in CurrentTimes |->
        predict_next_downlink([t_lat |-> tg[1], t_lon |-> tg[2]], current_time)]

\* SatSim.__init__: stores the target, checks nothing
NewSim(lat, lon) ==
    /\ sim' = [t_lat |-> lat, t_lon |-> lon]
    /\ state' = NoState
    /\ downlink' = NoCall
    /\ raised' = "none"
    /\ UNCHANGED <<report, busVars, alarmVars>>

GetState(t_sec) ==
    /\ LET r == get_state(sim, t_sec)
       IN  state' = [called |-> TRUE, time |-> r.time, lat |-> r.lat, lon |-> r.lon,
                     pitch |-> r.pitch, roll |-> r.roll, status |-> r.status]
    /\ raised' = "none"
    /\ UNCHANGED <<sim, downlink, report, busVars, alarmVars>>

PredictNextDownlink(current_time) ==
    /\ LET r == Forecast[<<sim.t_lat, sim.t_lon>>, current_time]
       IN  downlink' = [called |-> TRUE, at |-> current_time,
                        time |-> r.time, gs |-> r.gs]
    /\ raised' = "none"
    /\ UNCHANGED <<sim, state, report, busVars, alarmVars>>

(***************************************************************************)
(* numpy's global generator.  MT19937 and the Gaussian transform are not   *)
(* modelled: the generator is a full-period linear congruential generator  *)
(* on RngBits bits and a draw is a whole number of standard deviations in  *)
(* -3..3.  What is kept: the state is one per process, seed(n) sets it to  *)
(* a function of n alone, a draw returns a function of the state and       *)
(* advances it.                                                            *)
(***************************************************************************)
RngBits == 4
RngMod == 2 ^ RngBits

\* np.random.seed(n)
SeedIgnored(g, n) == g
Seed(g, n) == n % RngMod

\* the generator's next state
Advance(g) == (5 * g + 3) % RngMod

\* np.random.normal(0, sigma), read off state g
Normal(g, sigma) == sigma * ((g % 7) - 3)

(***************************************************************************)
(* BusSimulator.  Units: Time s, Gen_Power / Cons_Power W, Battery 1e-4 %, *)
(* Roll / Pitch centidegrees, RW_Speed rpm, Temp_In / Temp_Ex 1e-6 degC,   *)
(* Mem_Usage 0.1 %.                                                        *)
(***************************************************************************)
EVENT == "Event (80s)"
LONGTERM == "Long-term (1day)"
Modes == {EVENT, LONGTERM}

\* np.arange(start, stop, step) for step > 0
arange(start, stop, step) ==
    [i \in 1..(IF stop > start THEN (stop - start + step - 1) \div step ELSE 0)
        |-> start + (i - 1) * step]

\* BusSimulator.__init__: t_start, t_end, step
t_start(mode) == IF mode = EVENT THEN -40 ELSE 0
t_end(mode) == IF mode = EVENT THEN 40 ELSE 86400
step(mode) == IF mode = EVENT THEN 1 ELSE 600

\* self.times = np.arange(self.t_start, self.t_end + 1, self.step)
TimesOpenEnd(mode) == arange(t_start(mode), t_end(mode), step(mode))
Times(mode) == arange(t_start(mode), t_end(mode) + 1, step(mode))

is_eclipse(mode, t) == IF mode # EVENT THEN (t % 5400) > 3600 ELSE (t < -10 \/ t > 10)

\* t / 10 radians in phase units of 1/16 degree (16 * 18 / pi = 91.67325 per unit of t)
Radians10(t) == (t * 9167325) \div 100000

\* the locals of generate_data before the loop (FreshRunFull: a recorder that
\* starts at 70.0)
FreshRunFull(mode) ==
    [pc |-> "gen", mode |-> mode, i |-> 1, gen |-> 0, cons |-> 0,
     batt_level |-> 800000, temp_in |-> 25000000, temp_ex |-> 30000000,
     mem_usage |-> 700, data |-> <<>>]
FreshRun(mode) ==
    [pc |-> "gen", mode |-> mode, i |-> 1, gen |-> 0, cons |-> 0,
     batt_level |-> 800000, temp_in |-> 25000000, temp_ex |-> 30000000,
     mem_usage |-> 100, data |-> <<>>]

IdleRun == [FreshRun(EVENT) EXCEPT !.pc = "idle", !.i = 0]

\* 1) Power: the draw of gen
DrawGenOf(r, g) ==
    LET t == Times(r.mode)[r.i]
    IN  [r EXCEPT !.gen = IF is_eclipse(r.mode, t) THEN 50 + Normal(g, 3)
                                                    ELSE 180 + Normal(g, 8),
                  !.pc = "cons"]

\* whether step 3) draws for rw_rpm
DrawsRw(mode, t) == mode # EVENT \/ ~(-40 <= t /\ t <= 40)

\* 5) Memory usage (MemoryHalfOpen: the windows without their last second)
MemoryHalfOpen(mode, t, mem_usage) ==
    Clip(IF mode = EVENT
         THEN IF -5 <= t /\ t < 5 THEN mem_usage + 20
              ELSE IF 10 <= t /\ t < 20 THEN mem_usage - 100
              ELSE mem_usage
         ELSE (mem_usage + (IF (t % 5400) < 1800 THEN 8 ELSE 0))
              - (IF 3600 <= (t % 5400) /\ (t % 5400) < 4200 THEN 30 ELSE 0),
         0, 1000)
Memory(mode, t, mem_usage) ==
    Clip(IF mode = EVENT
         THEN IF -5 <= t /\ t <= 5 THEN mem_usage + 20
              ELSE IF 10 <= t /\ t <= 20 THEN mem_usage - 100
              ELSE mem_usage
         ELSE (mem_usage + (IF (t % 5400) < 1800 THEN 8 ELSE 0))
              - (IF 3600 <= (t % 5400) /\ (t % 5400) <= 4200 THEN 30 ELSE 0),
         0, 1000)

\* 4) Thermal
target_temp_ex(mode, t) == IF is_eclipse(mode, t) THEN -20000000 ELSE 80000000
ThermalEx(mode, t, temp_ex) ==
    temp_ex + ((target_temp_ex(mode, t) - temp_ex) \div (IF mode = EVENT THEN 100 ELSE 20))
ThermalIn(mode, temp_ex, temp_in) ==
    temp_in + ((temp_ex - temp_in) \div (IF mode = EVENT THEN 200 ELSE 40))

\* steps 3) to 5) and the appends of one iteration, rw_rpm given
FinishIteration(r, roll, pitch, rw_rpm) ==
    LET t == Times(r.mode)[r.i]
        ex == ThermalEx(r.mode, t, r.temp_ex)
        in == ThermalIn(r.mode, ex, r.temp_in)
        mem == Memory(r.mode, t, r.mem_usage)
        row == [Time |-> t, Lat |-> 0, Lon |-> 0, Yaw |-> 0,
                Gen_Power |-> r.gen, Cons_Power |-> r.cons,
                Battery |-> r.batt_level, Roll |-> roll, Pitch |-> pitch,
                Temp_In |-> in, Temp_Ex |-> ex, RW_Speed |-> rw_rpm,
                Mem_Usage |-> mem]
    IN  [r EXCEPT !.temp_ex = ex, !.temp_in = in, !.mem_usage = mem,
                  !.data = Append(r.data, row),
                  !.i = r.i + 1,
                  !.pc = IF r.i + 1 > Len(Times(r.mode)) THEN "return" ELSE "gen"]

\* the draw of cons, 2) Battery and, when step 3) draws nothing, the rest of
\* the iteration
DrawConsOf(r, g) ==
    LET t == Times(r.mode)[r.i]
        cons == (IF r.mode # EVENT THEN 120 ELSE 140) + Normal(g, 5)
        batt == Clip(r.batt_level + (r.gen - cons) * (IF r.mode = EVENT THEN 20 ELSE 2),
                     0, 1000000)
        r1 == [r EXCEPT !.cons = cons, !.batt_level = batt]
        roll == (2 * Sin90(Radians10(t))) \div 9
        pitch == Sin90(Radians10(t) + 1440) \div 9
    IN  IF DrawsRw(r.mode, t) THEN [r1 EXCEPT !.pc = "rw"]
        ELSE FinishIteration(r1, roll, pitch, 1000 + Abs(roll))

\* the draw of rw_rpm and the rest of the iteration
DrawRwOf(r, g) ==
    FinishIteration(r, 0, 0, 1000 + Normal(g, IF r.mode = EVENT THEN 10 ELSE 50))

(***************************************************************************)
(* The alarm summary of the telemetry page                                 *)
(***************************************************************************)
BatteryLow(row) == row.Battery < 200000
TempExHigh(row) == row.Temp_Ex > 75000000
MemHighLoose(row) == row.Mem_Usage >= 850
MemHigh(row) == row.Mem_Usage > 850

\* one channel: if mask.any(): alarms.append((signal, kind, int(mask.sum()))),
\* the mask given as the set of the rows it marks
Alarm(signal, kind, mask) ==
    IF \E i \in mask : TRUE
    THEN << <<signal, kind, Cardinality(mask)>> >>
    ELSE <<>>

\* alarms = [] and the three appends
ScanAlarms(d) ==
    Alarm("Battery", "LOW", {i \in 1..Len(d) : BatteryLow(d[i])})
        \o Alarm("Temp_Ex", "HIGH", {i \in 1..Len(d) : TempExHigh(d[i])})
        \o Alarm("Mem_Usage", "HIGH", {i \in 1..Len(d) : MemHigh(d[i])})

(***************************************************************************)
(* The telemetry page, one script run per session                          *)
(***************************************************************************)
Sessions == {1, 2}

NoSession == [has_df |-> FALSE, mode |-> EVENT, telemetry_df |-> <<>>, alarms |-> <<>>]

NoneRunning == \A s \in Sessions : run[s].pc = "idle"

\* the button: sim = BusSimulator(mode); sim.generate_data() up to its loop
StartRun(s, mode) ==
    /\ run[s].pc = "idle"
    /\ rng' = Seed(rng, 42)
    /\ run' = [run EXCEPT ![s] = FreshRun(mode)]
    /\ UNCHANGED <<session, satVars, alarmVars>>

DrawGen(s) ==
    /\ run[s].pc = "gen"
    /\ run' = [run EXCEPT ![s] = DrawGenOf(run[s], rng)]
    /\ rng' = Advance(rng)
    /\ UNCHANGED <<session, satVars, alarmVars>>

DrawCons(s) ==
    /\ run[s].pc = "cons"
    /\ run' = [run EXCEPT ![s] = DrawConsOf(run[s], rng)]
    /\ rng' = Advance(rng)
    /\ UNCHANGED <<session, satVars, alarmVars>>

DrawRw(s) ==
    /\ run[s].pc = "rw"
    /\ run' = [run EXCEPT ![s] = DrawRwOf(run[s], rng)]
    /\ rng' = Advance(rng)
    /\ UNCHANGED <<session, satVars, alarmVars>>

\* return pd.DataFrame(data); the page stores it and builds the alarm summary
Return(s) ==
    /\ run[s].pc = "return"
    /\ session' = [session EXCEPT ![s] =
                      [has_df |-> TRUE, mode |-> run[s].mode,
                       telemetry_df |-> run[s].data,
                       alarms |-> ScanAlarms(run[s].data)]]
    /\ run' = [run EXCEPT ![s] = IdleRun]
    /\ UNCHANGED <<rng, satVars, alarmVars>>

\* any other use of np.random in the process, between runs
ConsumeDraw ==
    /\ NoneRunning
    /\ rng' = Advance(rng)
    /\ UNCHANGED <<run, session, satVars, alarmVars>>

\* the first n samples of generate_data run alone, from its locals r and
\* generator state g
RECURSIVE RunAlone(_, _, _)
RunAlone(r, g, n) ==
    IF Len(r.data) >= n \/ r.pc = "return" THEN r.data
    ELSE IF r.pc = "gen" THEN RunAlone(DrawGenOf(r, g), Advance(g), n)
    ELSE IF r.pc = "cons" THEN RunAlone(DrawConsOf(r, g), Advance(g), n)
    ELSE RunAlone(DrawRwOf(r, g), Advance(g), n)

(***************************************************************************)
(* build_operation_animation and the report of the operation page.  The    *)
(* figure and the animation are not modelled; the samples of the pass, the *)
(* visibility of each ground station and the report are.                   *)
(***************************************************************************)
\* times = np.arange(-40, 41, 2)
PassTimesOpenEnd == arange(-40, 40, 2)
PassTimes == arange(-40, 41, 2)

\* data = [sim.get_state(t) for t in times]
PassData(s) == [i \in 1..Len(PassTimes) |-> get_state(s, PassTimes[i])]

\* (lats - gs["lat"]) ** 2 + (lons - gs["lon"]) ** 2 of one sample
DistSq(st, gs) ==
    (st.lat - gs.lat) * (st.lat - gs.lat) + (st.lon - gs.lon) * (st.lon - gs.lon)

\* d_min, squared: np.min over the samples of the pass (the square root is
\* increasing, so the minimum of the roots is the root of the minimum)
d_min_sq(data, gs) ==
    LET ds == {DistSq(data[i], gs) : i \in 1..Len(data)}
    IN  CHOOSE d \in ds : \A e \in ds : d <= e

\* is_visible_pass = bool(d_min < 20), on the squares; the radius is the
\* literal 20 of the source, here VisibilityRadius
is_visible_pass_outside(d_sq, radius) == d_sq > radius * radius
is_visible_pass(d_sq, radius) == d_sq < radius * radius

\* the loop over GROUND_STATIONS: the names of the visible stations, in
\* declaration order
visible_stations(data, radius) ==
    LET Visible(gs) == is_visible_pass(d_min_sq(data, gs), radius)
        sel == SelectSeq(GROUND_STATIONS, Visible)
    IN  [i \in 1..Len(sel) |-> sel[i].name]

\* 20 degrees
VisibilityRadius == 2000

\* wait_min = int(max(0, (next_t - 40)) // 60)
wait_min(next_t) == (IF next_t - 40 > 0 THEN next_t - 40 ELSE 0) \div 60

NoReport ==
    [called |-> FALSE, target |-> <<0, 0>>, visible_stations |-> <<>>,
     forecast |-> FALSE, next_downlink_time_s |-> <<>>, next_downlink_gs |-> <<>>,
     wait_min |-> <<>>]

\* build_operation_animation and the lines of the page that show its report:
\* forecast says whether predict_next_downlink was called (the report has the
\* next_downlink keys), wait_min is the wait shown, if one is shown
build_operation_animation(target_lat, target_lon) ==
    LET s == [t_lat |-> target_lat, t_lon |-> target_lon]
        data == PassData(s)
        vs == visible_stations(data, VisibilityRadius)
        next == IF vs = <<>> THEN predict_next_downlink(s, 40) ELSE NoResult
    IN  [called |-> TRUE, target |-> <<target_lat, target_lon>>,
         visible_stations |-> vs,
         forecast |-> (vs = <<>>),
         next_downlink_time_s |-> next.time,
         next_downlink_gs |-> next.gs,
         wait_min |-> IF vs = <<>> /\ next.time # <<>> /\ next.gs # <<>>
                      THEN <<wait_min(next.time[1])>> ELSE <<>>]

\* build_operation_animation on every target in use, computed once
Animation == [tg \in Targets |-> build_operation_animation(tg[1], tg[2])]

\* the run button of the operation page; the simulator it builds is its own
BuildOperationAnimation(target_lat, target_lon) ==
    /\ report' = Animation[<<target_lat, target_lon>>]
    /\ UNCHANGED <<sim, state, downlink, raised, busVars, alarmVars>>

(***************************************************************************)
(* Specifications                                                          *)
(***************************************************************************)
InitSat ==
    /\ \E tg \in Targets : sim = [t_lat |-> tg[1], t_lon |-> tg[2]]
    /\ state = NoState
    /\ downlink = NoCall
    /\ raised = "none"
    /\ report = NoReport

InitBus ==
    /\ rng \in 0..(RngMod - 1)
    /\ run = [s \in Sessions |-> IdleRun]
    /\ session = [s \in Sessions |-> NoSession]

\* the rows an arbitrary completed sequence is made of: each alarm channel on
\* either side of its threshold
AlarmRows == 2
Row(b, t, m) ==
    [Time |-> 0, Lat |-> 0, Lon |-> 0, Yaw |-> 0, Gen_Power |-> 0, Cons_Power |-> 0,
     Battery |-> b, Roll |-> 0, Pitch |-> 0, Temp_In |-> 0, Temp_Ex |-> t,
     RW_Speed |-> 0, Mem_Usage |-> m]
SampleRows ==
    {Row(b, t, m) : b \in {199999, 200000}, t \in {75000000, 75000001}, m \in {850, 851}}
SampleSequences == UNION {[1..n -> SampleRows] : n \in 0..AlarmRows}

NoAlarms == [done |-> FALSE, list |-> <<>>]

InitAlarm ==
    /\ df \in SampleSequences
    /\ alarms = NoAlarms

\* the parts a specification leaves alone
IdleSat ==
    /\ sim = [t_lat |-> 3606, t_lon |-> 14013]
    /\ state = NoState
    /\ downlink = NoCall
    /\ raised = "none"
    /\ report = NoReport
IdleBus ==
    /\ rng = 0
    /\ run = [s \in Sessions |-> IdleRun]
    /\ session = [s \in Sessions |-> NoSession]
IdleAlarm == df = <<>> /\ alarms = NoAlarms

Init == InitSat /\ IdleBus /\ IdleAlarm

\* SatSim on one target after another
NextSat ==
    \/ \E tg \in Targets : NewSim(tg[1], tg[2])
    \/ \E t_sec \in SampleTimes : GetState(t_sec)
    \/ \E current_time \in CurrentTimes : PredictNextDownlink(current_time)

Spec == Init /\ [][NextSat]_vars

\* the operation page: simulators built, forecasts asked and animations built,
\* on one target after another
NextOps ==
    \/ \E tg \in Targets : NewSim(tg[1], tg[2])
    \/ \E current_time \in CurrentTimes : PredictNextDownlink(current_time)
    \/ \E tg \in Targets : BuildOperationAnimation(tg[1], tg[2])
InitOps == InitSat /\ IdleBus /\ IdleAlarm
SpecOps == InitOps /\ [][NextOps]_vars

\* the telemetry page used by one session at a time
NextSeq ==
    \/ \E s \in Sessions, mode \in Modes : NoneRunning /\ StartRun(s, mode)
    \/ \E s \in Sessions : DrawGen(s)
    \/ \E s \in Sessions : DrawCons(s)
    \/ \E s \in Sessions : DrawRw(s)
    \/ \E s \in Sessions : Return(s)
    \/ ConsumeDraw

InitSeq == IdleSat /\ InitBus /\ IdleAlarm
SpecSeq == InitSeq /\ [][NextSeq]_vars

\* two sessions whose script runs interleave (one thread per session), over
\* the first ParSamples samples of each run
ParSamples == 2
NextPar ==
    \/ \E s \in Sessions, mode \in Modes : StartRun(s, mode)
    \/ \E s \in Sessions : run[s].i <= ParSamples /\ DrawGen(s)
    \/ \E s \in Sessions : run[s].i <= ParSamples /\ DrawCons(s)
    \/ \E s \in Sessions : run[s].i <= ParSamples /\ DrawRw(s)

InitPar == IdleSat /\ InitBus /\ IdleAlarm
SpecPar == InitPar /\ [][NextPar]_vars

\* what each mode's run produces alone, as far as SpecPar runs
AloneData == [mode \in Modes |-> RunAlone(FreshRun(mode), Seed(0, 42), ParSamples)]

\* the alarm summary over an arbitrary completed sequence
ScanAlarmsPage ==
    /\ ~alarms.done
    /\ alarms' = [done |-> TRUE, list |-> ScanAlarms(df)]
    /\ UNCHANGED <<df, satVars, busVars>>

InitAlarmPage == IdleSat /\ IdleBus /\ InitAlarm
SpecAlarm == InitAlarmPage /\ [][ScanAlarmsPage]_vars

(***************************************************************************)
(* Properties                                                              *)
(***************************************************************************)
IsPrefix(a, b) == Len(a) <= Len(b) /\ \A i \in 1..Len(a) : a[i] = b[i]

\* C1: under every interleaving of two sessions' generate_data steps, each
\* run's samples are those the run produces alone (specification SpecPar).  The
\* code breaks it: both runs draw from, and reseed, the one global generator.
C1_InterleavedRunsMatchAlone ==
    \A s \in Sessions :
        run[s].pc # "idle" => IsPrefix(run[s].data, AloneData[run[s].mode])

\* C2: two completed runs of the same mode hold identical sample sequences,
\* whatever the generator's state was before each of them (specification SpecSeq)
C2_SameModeSameData ==
    \A s1, s2 \in Sessions :
        (session[s1].has_df /\ session[s2].has_df /\ session[s1].mode = session[s2].mode)
            => session[s1].telemetry_df = session[s2].telemetry_df

C2_Witness ==
    /\ session[1].has_df /\ session[2].has_df
    /\ session[1].mode = LONGTERM /\ session[2].mode = LONGTERM
    /\ Len(session[2].telemetry_df) > 0
    /\ rng # Seed(0, 42)

\* C3 as stated: the longitude get_state returns is in (-180, 180]
C3_LonAboveMinus180 ==
    state.called => (state.lon > -18000 /\ state.lon <= 18000)

\* C3 amended: the longitude get_state returns is in [-180, 180]
C3_LonInClosedRange ==
    state.called => (state.lon >= -18000 /\ state.lon <= 18000)

C3_Witness == state.called /\ state.lon = -18000 /\ sim.t_lon = -17800

\* the documented domain of a target: |latitude| <= 90, longitude in (-180, 180]
InDomain(s) ==
    /\ -9000 <= s.t_lat /\ s.t_lat <= 9000
    /\ -18000 < s.t_lon /\ s.t_lon <= 18000

\* C4: a target outside the documented domain is refused with InvalidInput and
\* no state is ever produced for it.  The code checks nothing.
C4_InvalidTargetRefused ==
    ~InDomain(sim) => (raised = "InvalidInput" /\ ~state.called)

\* the (probe, station) pairs at a planar distance under 20 degrees, by target
\* and current_time: probe k is at current_time + 60 * k, station i is the
\* i-th declared
InRangePairs ==
    [tg \in Targets, current_time \in CurrentTimes |->
        {pr \in (0..99) \X (1..Len(GROUND_STATIONS)) :
            LET st == get_state([t_lat |-> tg[1], t_lon |-> tg[2]],
                                current_time + 60 * pr[1])
                d_lat == st.lat - GROUND_STATIONS[pr[2]].lat
                d_lon == st.lon - GROUND_STATIONS[pr[2]].lon
            IN  d_lat * d_lat + d_lon * d_lon < 4000000}]

Earlier(p, q) == p[1] < q[1] \/ (p[1] = q[1] /\ p[2] < q[2])

\* C5: predict_next_downlink returns the pair that is first by probe time and
\* then by declaration order among those in range, and (None, None) exactly
\* when no pair is in range at any of the 100 probes
C5_FirstProbeFirstStation ==
    downlink.called =>
        LET hits == InRangePairs[<<sim.t_lat, sim.t_lon>>, downlink.at]
        IN  /\ (downlink.time = <<>> /\ downlink.gs = <<>>) <=> (hits = {})
            /\ downlink.time # <<>> =>
                 \E p \in hits :
                    /\ \A q \in hits : ~Earlier(q, p)
                    /\ downlink.time = <<downlink.at + 60 * p[1]>>
                    /\ downlink.gs = <<GROUND_STATIONS[p[2]].name>>

\* two stations in range at the earliest probe: the first-listed is returned
C5_Witness ==
    /\ downlink.called /\ downlink.at = 0
    /\ downlink.time = <<0>> /\ downlink.gs = <<"Tsukuba">>
    /\ <<0, 2>> \in InRangePairs[<<sim.t_lat, sim.t_lon>>, 0]

\* C6: a returned time is current_time plus a multiple of 60 between 0 and
\* 6000, and time and station are both present or both absent
C6_TimeWithinHorizon ==
    downlink.called =>
        /\ Len(downlink.time) = Len(downlink.gs)
        /\ downlink.time # <<>> =>
             /\ downlink.time[1] >= downlink.at
             /\ (downlink.time[1] - downlink.at) % 60 = 0
             /\ downlink.time[1] <= downlink.at + 6000

C6_Witness ==
    /\ downlink.called /\ downlink.time # <<>> /\ downlink.gs # <<>>
    /\ downlink.time[1] > downlink.at + 3000

\* C7: the status is CAPTURING for |t| <= 2, PREV TASK for t < -20, NEXT TASK
\* for t > 20 and TARGET ACQ exactly for t in [-20, -2) or (2, 20]
C7_StatusPartition ==
    state.called =>
        LET t == state.time
        IN  /\ state.status \in {"CAPTURING!", "PREV TASK", "NEXT TASK", "TARGET ACQ"}
            /\ (state.status = "CAPTURING!") <=> (-2 <= t /\ t <= 2)
            /\ (state.status = "PREV TASK") <=> (t < -20)
            /\ (state.status = "NEXT TASK") <=> (t > 20)
            /\ (state.status = "TARGET ACQ") <=>
                   ((-20 <= t /\ t < -2) \/ (2 < t /\ t <= 20))

C7_Witness == state.called /\ state.time = 2 /\ state.status = "CAPTURING!"

\* the samples generated so far, finished or not
AllData == {run[s].data : s \in Sessions} \cup {session[s].telemetry_df : s \in Sessions}

\* C8: in every generated sample Battery and Mem_Usage are in [0, 100] and
\* Temp_Ex and Temp_In are between -20 and 80 (specification SpecSeq)
C8_ChannelsWithinBounds ==
    \A d \in AllData : \A i \in 1..Len(d) :
        /\ 0 <= d[i].Battery /\ d[i].Battery <= 1000000
        /\ 0 <= d[i].Mem_Usage /\ d[i].Mem_Usage <= 1000
        /\ -20000000 <= d[i].Temp_Ex /\ d[i].Temp_Ex <= 80000000
        /\ -20000000 <= d[i].Temp_In /\ d[i].Temp_In <= 80000000

\* a finished EVENT run whose recorder the clamp held at 0 while draining
C8_Witness ==
    \E s \in Sessions :
        /\ session[s].has_df /\ session[s].mode = EVENT
        /\ \E i \in 2..Len(session[s].telemetry_df) :
              /\ session[s].telemetry_df[i].Time = 20
              /\ session[s].telemetry_df[i - 1].Mem_Usage = 0
              /\ session[s].telemetry_df[i].Mem_Usage = 0

\* the alarms of one channel in the list
AlarmsOf(list, signal) == {i \in 1..Len(list) : list[i][1] = signal}

\* C9: a channel has an alarm iff a sample violates its threshold, the alarm
\* carries the channel's kind and the number of violating samples, there is
\* at most one per channel, and a sequence where only Battery violates yields
\* exactly one alarm, (Battery, LOW, count >= 1) (specification SpecAlarm)
C9_AlarmIffViolation ==
    alarms.done =>
        LET low == {i \in 1..Len(df) : df[i].Battery < 200000}
            hot == {i \in 1..Len(df) : df[i].Temp_Ex > 75000000}
            full == {i \in 1..Len(df) : df[i].Mem_Usage > 850}
            Channel(signal, kind, bad) ==
                /\ Cardinality(AlarmsOf(alarms.list, signal)) = (IF bad = {} THEN 0 ELSE 1)
                /\ \A i \in AlarmsOf(alarms.list, signal) :
                      alarms.list[i] = <<signal, kind, Cardinality(bad)>>
        IN  /\ Channel("Battery", "LOW", low)
            /\ Channel("Temp_Ex", "HIGH", hot)
            /\ Channel("Mem_Usage", "HIGH", full)
            /\ \A i \in 1..Len(alarms.list) :
                  /\ alarms.list[i][1] \in {"Battery", "Temp_Ex", "Mem_Usage"}
                  /\ alarms.list[i][3] >= 1
            /\ (low # {} /\ hot = {} /\ full = {}) =>
                  /\ Len(alarms.list) = 1
                  /\ alarms.list[1][1] = "Battery" /\ alarms.list[1][2] = "LOW"
                  /\ alarms.list[1][3] >= 1

\* only Battery violates, in both samples, one of them with Mem_Usage at 85
C9_Witness ==
    /\ alarms.done
    /\ alarms.list = << <<"Battery", "LOW", 2>> >>
    /\ \E i \in 1..Len(df) : df[i].Mem_Usage = 850

\* C10: the samples are one per grid time in increasing order, 81 at
\* -40, -39, ..., 40 for EVENT and 145 at 0, 600, ..., 86400 for LONGTERM
\* (specification SpecSeq)
C10_OneSamplePerGridTime ==
    \A s \in Sessions :
        /\ \A i \in 1..Len(run[s].data) :
              run[s].data[i].Time =
                  IF run[s].mode = EVENT THEN -40 + (i - 1) ELSE 600 * (i - 1)
        /\ session[s].has_df =>
              LET d == session[s].telemetry_df
              IN  /\ Len(d) = (IF session[s].mode = EVENT THEN 81 ELSE 145)
                  /\ \A i \in 1..Len(d) :
                        d[i].Time = IF session[s].mode = EVENT THEN -40 + (i - 1)
                                                               ELSE 600 * (i - 1)
                  /\ d[Len(d)].Time = (IF session[s].mode = EVENT THEN 40 ELSE 86400)

C10_Witness ==
    /\ session[1].has_df /\ session[1].mode = EVENT
    /\ Len(session[1].telemetry_df) = 81
    /\ session[2].has_df /\ session[2].mode = LONGTERM
    /\ Len(session[2].telemetry_df) = 145
    /\ session[2].telemetry_df[145].Time = 86400

\* the radii visibility is compared on (centidegrees): the source's 20
\* degrees, two smaller and two larger
Radii == {500, 1000, 2000, 3000, 6000}

\* the visible stations of the pass over every target in use, at every radius,
\* computed once
PassVisibility ==
    [tg \in Targets, radius \in Radii |->
        visible_stations(PassData([t_lat |-> tg[1], t_lon |-> tg[2]]), radius)]

Names(seq) == {seq[i] : i \in 1..Len(seq)}

\* C11 (specification SpecOps): pass visibility is monotonic in the visibility
\* radius.  On the samples and stations of the pass a report was built from,
\* the report's visible stations are those of the source's radius, and every
\* station visible with a radius r is visible with every radius r2 >= r.
C11_VisibilityMonotoneInRadius ==
    report.called =>
        /\ report.visible_stations = PassVisibility[report.target, VisibilityRadius]
        /\ \A r \in Radii, r2 \in Radii :
              r <= r2 => Names(PassVisibility[report.target, r])
                             \subseteq Names(PassVisibility[report.target, r2])

\* a report whose pass shows stations at a radius below the source's, and more
\* stations at the source's radius
C11_Witness ==
    /\ report.called
    /\ \E r \in Radii :
          /\ r < VisibilityRadius
          /\ Names(PassVisibility[report.target, r]) # {}
          /\ Names(PassVisibility[report.target, r]) # Names(report.visible_stations)

\* the additive rule the memory update is compared with: every amount whose
\* condition holds is added, then the sum is clamped to [0, 100] (tenths of a
\* percent)
RuleAmount(mode, t) ==
    IF mode = EVENT
    THEN (IF -5 <= t /\ t <= 5 THEN 20 ELSE 0)
             + (IF 10 <= t /\ t <= 20 THEN -100 ELSE 0)
    ELSE (IF (t % 5400) < 1800 THEN 8 ELSE 0)
             + (IF 3600 <= (t % 5400) /\ (t % 5400) <= 4200 THEN -30 ELSE 0)
RuleMemory(mode, t, before) ==
    LET sum == before + RuleAmount(mode, t)
    IN  IF sum < 0 THEN 0 ELSE IF sum > 1000 THEN 1000 ELSE sum

\* the recorder column of a sample sequence follows the rule from 10.0 on
FollowsRule(mode, d) ==
    \A i \in 1..Len(d) :
        d[i].Mem_Usage =
            RuleMemory(mode, d[i].Time, IF i = 1 THEN 100 ELSE d[i - 1].Mem_Usage)

\* C12 (specification SpecSeq): at every sample time of either mode the
\* recorder-memory update of generate_data equals the additive rule followed
\* by the clamp to [0, 100], starting from 10.0, in the rows generated so far,
\* in the finished sequences and in the local the next update starts from
C12_MemoryFollowsRule ==
    \A s \in Sessions :
        /\ FollowsRule(run[s].mode, run[s].data)
        /\ run[s].mem_usage =
               (IF run[s].data = <<>> THEN 100
                ELSE run[s].data[Len(run[s].data)].Mem_Usage)
        /\ session[s].has_df => FollowsRule(session[s].mode, session[s].telemetry_df)

\* finished runs of both modes in which the rule filled, drained and clamped:
\* EVENT reached 32.0 at t = 5 and was clamped at t = 13, LONGTERM drained
\* from 12.4 at t = 3600 and was clamped at t = 15000
C12_Witness ==
    \E s \in Sessions, s2 \in Sessions :
        /\ session[s].has_df /\ session[s].mode = EVENT
        /\ session[s].telemetry_df[46].Time = 5
        /\ session[s].telemetry_df[46].Mem_Usage = 320
        /\ session[s].telemetry_df[53].Mem_Usage = 20
        /\ session[s].telemetry_df[54].Time = 13
        /\ session[s].telemetry_df[54].Mem_Usage = 0
        /\ session[s2].has_df /\ session[s2].mode = LONGTERM
        /\ session[s2].telemetry_df[6].Mem_Usage = 124
        /\ session[s2].telemetry_df[7].Time = 3600
        /\ session[s2].telemetry_df[7].Mem_Usage = 94
        /\ session[s2].telemetry_df[25].Mem_Usage = 22
        /\ session[s2].telemetry_df[26].Time = 15000
        /\ session[s2].telemetry_df[26].Mem_Usage = 0

\* whether no station is within 20 degrees of any sample t = -40, -38, ..., 40
\* of the pass over a target, for every target in use, computed once
PassClear ==
    [tg \in Targets |->
        \A k \in 0..40, i \in 1..Len(GROUND_STATIONS) :
            ~InRange(get_state([t_lat |-> tg[1], t_lon |-> tg[2]], -40 + 2 * k),
                     GROUND_STATIONS[i])]

\* C13 (specification SpecOps): build_operation_animation computes the
\* next-downlink forecast only when no station is visible during the sampled
\* pass, and a time it then returns is at least 100, never 40, so that the
\* wait shown is at least 1 minute.
C13_ForecastAfterPassEnd ==
    report.called =>
        /\ report.forecast => PassClear[report.target]
        /\ ~report.forecast =>
              /\ report.next_downlink_time_s = <<>>
              /\ report.wait_min = <<>>
        /\ report.next_downlink_time_s # <<>> =>
              /\ report.next_downlink_time_s[1] >= 100
              /\ report.wait_min # <<>>
              /\ report.wait_min[1] >= 1

\* a report with no visible station whose forecast is the earliest possible:
\* Maspalomas at t = 100, shown as a wait of 1 minute
C13_Witness ==
    /\ report.called /\ report.visible_stations = <<>> /\ report.forecast
    /\ report.next_downlink_time_s = <<100>>
    /\ report.next_downlink_gs = <<"Maspalomas">>
    /\ report.wait_min = <<1>>

\* the largest recorder level the claim gives for a mode: 32.0 and 12.4
MemPeak(mode) == IF mode = EVENT THEN 320 ELSE 124

\* C14 (specification SpecSeq): in every sequence generate_data produces, in
\* either mode, Mem_Usage never exceeds 85: its maximum is 32.0 in EVENT
\* mode, reached at t = 5, and 12.4 in LONGTERM mode, so the alarm summary of
\* a generated sequence has no Mem_Usage alarm; in EVENT mode the clamp
\* drains the recorder to 0 during the window t in [10, 20] and it stays at 0
\* until the end of the run.
C14_MemoryBelowAlarm ==
    \A s \in Sessions :
        /\ \A i \in 1..Len(run[s].data) :
              run[s].data[i].Mem_Usage <= MemPeak(run[s].mode)
        /\ session[s].has_df =>
              LET d == session[s].telemetry_df
              IN  /\ \A i \in 1..Len(d) :
                        d[i].Mem_Usage <= MemPeak(session[s].mode) /\ d[i].Mem_Usage <= 850
                  /\ \E i \in 1..Len(d) :
                        /\ d[i].Mem_Usage = MemPeak(session[s].mode)
                        /\ session[s].mode = EVENT => d[i].Time = 5
                  /\ AlarmsOf(session[s].alarms, "Mem_Usage") = {}
                  /\ session[s].mode = EVENT =>
                        \E i \in 2..Len(d) :
                            /\ 10 <= d[i].Time /\ d[i].Time <= 20
                            /\ d[i - 1].Mem_Usage > 0
                            /\ d[i - 1].Mem_Usage - 100 < 0
                            /\ \A j \in i..Len(d) : d[j].Mem_Usage = 0

\* finished runs of both modes with their alarm summaries built: the EVENT
\* recorder peaked at 32.0 and ended the run empty, the LONGTERM recorder
\* peaked at 12.4, and neither summary has a Mem_Usage alarm
C14_Witness ==
    \E s \in Sessions, s2 \in Sessions :
        /\ session[s].has_df /\ session[s].mode = EVENT
        /\ \E i \in 1..81 : session[s].telemetry_df[i].Mem_Usage = 320
        /\ session[s].telemetry_df[81].Time = 40
        /\ session[s].telemetry_df[81].Mem_Usage = 0
        /\ AlarmsOf(session[s].alarms, "Mem_Usage") = {}
        /\ session[s2].has_df /\ session[s2].mode = LONGTERM
        /\ \E i \in 1..145 : session[s2].telemetry_df[i].Mem_Usage = 124
        /\ AlarmsOf(session[s2].alarms, "Mem_Usage") = {}
====
